---- MODULE Spec2Model ----
(***************************************************************************)
(* The reconnect engine of deno-plc/adapter-tcp (class TCPAdapter): the    *)
(* #loop coroutine, the #handle_err classifier, the send callback handed   *)
(* to each session, and the asynchronous completion of the writes the      *)
(* callback issues.  One action per segment of code that runs without an   *)
(* await: JavaScript runs each such segment to completion.                 *)
(*                                                                         *)
(* All times are in ticks, TicksPerMs ticks to the millisecond, so that    *)
(* the mean of up to HistoryLimit durations is computed exactly.           *)
(***************************************************************************)
EXTENDS Integers, Sequences, FiniteSets, TLC

VARIABLES
    host,                 \* options.host
    status,               \* this.status.value
    details,              \* this.details.value
    stats_conn_duration,  \* this.#stats_conn_duration
    avg_conn_duration,    \* this.avg_conn_duration.value
    current_conn,         \* this.#current_conn
    pc,                   \* where the #loop coroutine is suspended
    conn,                 \* #loop's local `conn` (Null until connect resolves)
    session,              \* #loop's local `session`
    delay,                \* the delay last handed to setTimeout
    nextConn,             \* the id the next socket Deno.connect returns will get
    pending,              \* per socket: conn.write promises not yet settled
    callbacks,            \* sockets whose send callback the driver code holds
    recvCalled,           \* whether recv was called on the current session
    timers,               \* setTimeout callbacks of #loop not yet fired
    live,                 \* sockets opened and neither ended nor closed
    yielded,              \* chunks conn.readable has yielded in this attempt
    attempts,             \* history: #loop invocations so far
    allDur,               \* history: the duration of every finished attempt
    sendLog,              \* history: the send calls of the last step
    ended,                \* history: sockets whose attempt has terminated
    destroyCalls,         \* history: destroy() calls in the current attempt
    factoryCalls,         \* history: sessionFactory calls in the current attempt
    factoryLog,           \* history: what sessionFactory saw when it was called
    lastErr,              \* history: the failure #handle_err got in the last step
    statusLog,            \* history: the values status took in the last step
    active,               \* history: #loop invocations begun and not finished
    observed,             \* history: <<status, detail>> pairs the signals
                          \*   showed their observers in the last step
    recvLog               \* history: the chunks passed to recv in this attempt

vars == <<host, status, details, stats_conn_duration, avg_conn_duration,
          current_conn, pc, conn, session, delay, nextConn, pending, callbacks,
          recvCalled, timers, live, yielded, attempts, allDur, sendLog, ended,
          destroyCalls, factoryCalls, factoryLog, lastErr, statusLog, active,
          observed, recvLog>>

----------------------------------------------------------------------------
(* Bounds of the model *)

MaxAttempts == 2       \* #loop invocations explored by Spec
MaxLongAttempts == 7   \* #loop invocations explored by SpecQuiet, SpecRefused
MaxConns == 2          \* connects that succeed
MaxInflight == 1       \* unsettled writes per socket
MaxChunks == 2         \* chunks a socket yields

----------------------------------------------------------------------------
(* Values *)

Null == 0           \* null: no socket, no session; sockets are 1, 2, ...
NaN == -1           \* NaN; every duration and mean is >= 0
ConnIds == 1..MaxConns

HistoryLimit == 6
TicksPerMs == 4 * 3 * 5    \* the least number every length 1..HistoryLimit divides
TargetWindow == 5000 * TicksPerMs

Hosts == {"", "!", "127.0.0.1"}
Durations == {100 * TicksPerMs, 6000 * TicksPerMs}
\* Spec, which interleaves the loop with sends and writes, draws one duration:
\* no step of the code reads the statistics to decide what it does
SpecDurations == {100 * TicksPerMs}

ErrorNames == {"ConnectionRefused", "ConnectionReset", "Interrupted",
               "TimedOut", "ConnectionAborted", "BadResource"}
\* what can be thrown: Error objects, and values that are no Error (which may
\* still carry a name property)
Failures == [isError : {TRUE}, name : ErrorNames]
            \cup {[isError |-> FALSE, name |-> "ConnectionRefused"]}
NoFailure == [isError |-> FALSE, name |-> "none"]
Refused == [isError |-> TRUE, name |-> "ConnectionRefused"]

Min(a, b) == IF a < b THEN a ELSE b
Max(a, b) == IF a > b THEN a ELSE b

RECURSIVE Sum(_)
Sum(s) == IF s = <<>> THEN 0 ELSE Head(s) + Sum(Tail(s))


----------------------------------------------------------------------------
(* The engine's code, as functions of the state `s` a synchronous segment  *)
(* works on.  `s` carries the engine's fields and the histories the        *)
(* segment adds to; Eng is the state a segment starts from and Commit      *)
(* stores the state it ends in.                                            *)

\* variant: the "!" sentinel is not recognised
Enabled_EmptyOnly(h) == h # ""

\* constructor: the loop is started unless the host is "" or "!"
Enabled(h) == h # "" /\ h # "!"

\* variant: the ConnectionAborted branch is missing
Classify_NoAbortedBranch(err) ==
    IF err.isError
    THEN IF err.name = "ConnectionRefused" THEN "ECONNREFUSED"
         ELSE IF err.name = "ConnectionReset" THEN "ECONNRESET"
         ELSE IF err.name = "Interrupted" THEN "INTERRUPTED"
         ELSE IF err.name = "TimedOut" THEN "ETIMEDOUT"
         ELSE "UNKNOWN_ERROR"
    ELSE "UNKNOWN_ERROR"

\* the if-chain of #handle_err: the detail recorded for a failure
Classify(err) ==
    IF err.isError
    THEN IF err.name = "ConnectionRefused" THEN "ECONNREFUSED"
         ELSE IF err.name = "ConnectionReset" THEN "ECONNRESET"
         ELSE IF err.name = "Interrupted" THEN "INTERRUPTED"
         ELSE IF err.name = "TimedOut" THEN "ETIMEDOUT"
         ELSE IF err.name = "ConnectionAborted" THEN "NO_ERROR"
         ELSE "UNKNOWN_ERROR"
    ELSE "UNKNOWN_ERROR"

\* this.status.value = v
SetStatus(s, v) == [s EXCEPT !.status = v, !.slog = Append(@, v)]

\* the signals' observers run: after an assignment outside a batch, and at
\* the end of a batch
Notify(s) == [s EXCEPT !.obs = @ \cup {<<s.status, s.details>>}]

\* variant: the status is set, the detail is left as it was
handle_err_StatusOnly(s, err) ==
    Notify([SetStatus(s, "DISCONNECTED") EXCEPT !.err = err])

\* variant: the detail is set, the status is left as it was
handle_err_DetailOnly(s, err) ==
    Notify([s EXCEPT !.details = Classify(err), !.err = err])

\* #handle_err(err)
handle_err(s, err) ==
    Notify([SetStatus(s, "DISCONNECTED")
              EXCEPT !.details = Classify(err), !.err = err])

\* variant: the detail of the previous attempt is not reset
mark_connected_StatusOnly(s) == Notify(SetStatus(s, "CONNECTED"))

\* the batch that follows a successful connect
mark_connected(s) ==
    Notify([SetStatus(s, "CONNECTED") EXCEPT !.details = "NO_ERROR"])

\* variant: no guard
SendGuard_Always(c, cur) == TRUE

\* the guard of the send callback whose closure captured socket c
SendGuard(c, cur) == c = cur

\* history: a call of the send callback that captured socket c, made when
\* the current socket was s.cur, which wrote to socket `on` (Null: no write)
SendRecord(s, c, on) ==
    [conn |-> c, cur |-> s.cur, stale |-> c \in s.ended, on |-> on]

\* the send callback whose closure captured socket c
send(s, c) ==
    IF SendGuard(c, s.cur)
    THEN [s EXCEPT !.pending[c] = @ + 1,
                   !.sends = Append(@, SendRecord(s, c, c))]
    ELSE [s EXCEPT !.sends = Append(@, SendRecord(s, c, Null))]

\* driver code (sessionFactory, recv, destroy) that may call send as it runs
MaySend(s, c, calls) == IF calls THEN send(s, c) ELSE s

\* a send call that stays within MaxInflight
WithinBound(s, c, calls) ==
    (calls /\ SendGuard(c, s.cur)) => s.pending[c] < MaxInflight

\* variant: pop() instead of shift(): the newest entry is dropped
Trim_DropsNewest(h) ==
    IF Len(h) > HistoryLimit THEN SubSeq(h, 1, HistoryLimit) ELSE h

\* while (length > 6) shift()
RECURSIVE Trim(_)
Trim(h) == IF Len(h) > HistoryLimit THEN Trim(Tail(h)) ELSE h

\* reduce((prev, curr) => prev + curr, 0) / length
Mean(h) == IF Len(h) = 0 THEN NaN ELSE Sum(h) \div Len(h)

\* the delay handed to setTimeout
BackOff(avg) == IF avg = NaN THEN NaN ELSE Min(0, TargetWindow - avg)

\* variant: destroy() at the end of the try block, skipped by the catch
destroy_OnlyAfterCleanEnd(s, sess, calls) ==
    IF sess # Null /\ s.err = NoFailure
    THEN MaySend([s EXCEPT !.destroyCalls = @ + 1], sess, calls)
    ELSE s

\* session?.destroy(), whose body may call send
destroy(s, sess, calls) ==
    IF sess # Null
    THEN MaySend([s EXCEPT !.destroyCalls = @ + 1], sess, calls)
    ELSE s

\* variant: setTimeout inside the try block, skipped by the catch
terminate_NoRetryAfterError(s, sess, c, d, calls) ==
    LET s0 == [s EXCEPT !.ended = IF c # Null THEN @ \cup {c} ELSE @]
        s1 == Notify(SetStatus(s0, "DISCONNECTED"))
        s2 == [s1 EXCEPT !.cur = Null]
        s3 == [s2 EXCEPT !.hist = Trim(Append(@, d))]
        s4 == [s3 EXCEPT !.avg = Mean(s3.hist)]
        s5 == [s4 EXCEPT !.delay = BackOff(s4.avg),
                         !.timers = IF s.err = NoFailure THEN @ + 1 ELSE @]
        s6 == destroy(s5, sess, calls)
    IN  [s6 EXCEPT !.active = @ - 1]

\* #loop after the try/catch: the attempt on socket c (Null: none) that
\* lasted d ends
terminate(s, sess, c, d, calls) ==
    LET s0 == [s EXCEPT !.ended = IF c # Null THEN @ \cup {c} ELSE @]
        s1 == Notify(SetStatus(s0, "DISCONNECTED"))
        s2 == [s1 EXCEPT !.cur = Null]
        s3 == [s2 EXCEPT !.hist = Trim(Append(@, d))]
        s4 == [s3 EXCEPT !.avg = Mean(s3.hist)]
        s5 == [s4 EXCEPT !.delay = BackOff(s4.avg), !.timers = @ + 1]
        s6 == destroy(s5, sess, calls)
    IN  [s6 EXCEPT !.active = @ - 1]

Eng ==
    [status |-> status, details |-> details, hist |-> stats_conn_duration,
     avg |-> avg_conn_duration, cur |-> current_conn, delay |-> delay,
     pending |-> pending, ended |-> ended, destroyCalls |-> destroyCalls,
     timers |-> timers, active |-> active,
     sends |-> <<>>, err |-> NoFailure, slog |-> <<status>>, obs |-> {}]

Commit(s) ==
    /\ status' = s.status
    /\ details' = s.details
    /\ stats_conn_duration' = s.hist
    /\ avg_conn_duration' = s.avg
    /\ current_conn' = s.cur
    /\ delay' = s.delay
    /\ pending' = s.pending
    /\ sendLog' = s.sends
    /\ ended' = s.ended
    /\ destroyCalls' = s.destroyCalls
    /\ lastErr' = s.err
    /\ statusLog' = s.slog
    /\ timers' = s.timers
    /\ active' = s.active
    /\ observed' = s.obs

----------------------------------------------------------------------------
(* The state after `new TCPAdapter(options)`: the field initialisers, then *)
(* for an enabled host #loop up to its first await.                        *)

Init ==
    /\ host \in Hosts
    /\ status = IF Enabled(host) THEN "CONNECTING" ELSE "DISCONNECTED"
    /\ statusLog = IF Enabled(host) THEN <<"DISCONNECTED", "CONNECTING">>
                                    ELSE <<"DISCONNECTED">>
    /\ pc = IF Enabled(host) THEN "connect" ELSE "off"
    /\ attempts = IF Enabled(host) THEN 1 ELSE 0
    /\ details = "NO_ERROR"
    /\ stats_conn_duration = <<>>
    /\ avg_conn_duration = NaN
    /\ current_conn = Null
    /\ conn = Null
    /\ session = Null
    /\ delay = NaN
    /\ nextConn = 1
    /\ pending = [c \in ConnIds |-> 0]
    /\ callbacks = {}
    /\ recvCalled = FALSE
    /\ allDur = <<>>
    /\ sendLog = <<>>
    /\ ended = {}
    /\ destroyCalls = 0
    /\ factoryCalls = 0
    /\ factoryLog = {}
    /\ lastErr = NoFailure
    /\ timers = 0
    /\ active = IF Enabled(host) THEN 1 ELSE 0
    /\ observed = IF Enabled(host) THEN {<<"CONNECTING", "NO_ERROR">>} ELSE {}
    /\ live = {}
    /\ yielded = 0
    /\ recvLog = <<>>

----------------------------------------------------------------------------
(* The steps of #loop *)

\* what sessionFactory sees when it is called for socket c
FactoryView(s, c) ==
    [status |-> s.status, details |-> s.details, current |-> s.cur = c]

\* the timer set by the previous attempt fires: #loop up to `await connect`
TimerFires(limit) ==
    /\ timers > 0
    /\ attempts < limit
    /\ Commit([Notify(SetStatus(Eng, "CONNECTING"))
                  EXCEPT !.destroyCalls = 0, !.timers = @ - 1, !.active = @ + 1])
    /\ pc' = "connect"
    /\ conn' = Null
    /\ session' = Null
    /\ recvCalled' = FALSE
    /\ yielded' = 0
    /\ recvLog' = <<>>
    /\ factoryCalls' = 0
    /\ attempts' = attempts + 1
    /\ UNCHANGED <<host, nextConn, callbacks, allDur, factoryLog, live>>

\* Deno.connect rejects with err after d ticks
ConnectFails(err, d) ==
    /\ pc = "connect"
    /\ Commit(terminate(handle_err(Eng, err), session, conn, d, FALSE))
    /\ pc' = "timer"
    /\ allDur' = Append(allDur, d)
    /\ UNCHANGED <<host, conn, session, nextConn, callbacks, recvCalled,
                   attempts, factoryCalls, factoryLog, live, yielded, recvLog>>

\* Deno.connect resolves and sessionFactory returns a session
ConnectSucceeds(calls) ==
    /\ pc = "connect"
    /\ nextConn <= MaxConns
    /\ LET c == nextConn
           s1 == mark_connected([Eng EXCEPT !.cur = c])
       IN  /\ WithinBound(s1, c, calls)
           /\ Commit(MaySend(s1, c, calls))
           /\ factoryLog' = factoryLog \cup {FactoryView(s1, c)}
           /\ conn' = c
           /\ session' = c
           /\ callbacks' = callbacks \cup {c}
           /\ live' = live \cup {c}
    /\ nextConn' = nextConn + 1
    /\ factoryCalls' = factoryCalls + 1
    /\ pc' = "read"
    /\ UNCHANGED <<host, recvCalled, attempts, allDur, yielded, recvLog>>

\* Deno.connect resolves and sessionFactory throws err; the attempt ends
\* d ticks after it began
FactoryThrows(calls, err, d) ==
    /\ pc = "connect"
    /\ nextConn <= MaxConns
    /\ LET c == nextConn
           s1 == mark_connected([Eng EXCEPT !.cur = c])
           s2 == handle_err(MaySend(s1, c, calls), err)
       IN  /\ WithinBound(s1, c, calls)
           /\ Commit(terminate(s2, session, c, d, FALSE))
           /\ factoryLog' = factoryLog \cup {FactoryView(s1, c)}
           /\ conn' = c
           /\ callbacks' = callbacks \cup {c}
           /\ live' = live \cup {c}
    /\ nextConn' = nextConn + 1
    /\ factoryCalls' = factoryCalls + 1
    /\ pc' = "timer"
    /\ allDur' = Append(allDur, d)
    /\ UNCHANGED <<host, session, recvCalled, attempts, yielded, recvLog>>

\* history: session.recv is called on session sess with the n-th chunk that
\* socket c yielded, and throws or returns
RecvRecord(sess, c, n, threw) ==
    [to |-> sess, from |-> c, chunk |-> n, threw |-> threw]

\* variant: the pump is not stopped by the end of the attempt
RecvChunk_AfterEnd(calls) ==
    /\ pc \in {"read", "timer"}
    /\ session # Null
    /\ yielded < MaxChunks
    /\ WithinBound(Eng, conn, calls)
    /\ Commit(MaySend(Eng, conn, calls))
    /\ recvCalled' = TRUE
    /\ yielded' = yielded + 1
    /\ recvLog' = Append(recvLog, RecvRecord(session, conn, yielded + 1, FALSE))
    /\ UNCHANGED <<host, pc, conn, session, nextConn, callbacks, attempts,
                   allDur, factoryCalls, factoryLog, live>>

\* conn.readable yields a chunk and session.recv returns
RecvChunk(calls) ==
    /\ pc = "read"
    /\ yielded < MaxChunks
    /\ WithinBound(Eng, conn, calls)
    /\ Commit(MaySend(Eng, conn, calls))
    /\ recvCalled' = TRUE
    /\ yielded' = yielded + 1
    /\ recvLog' = Append(recvLog, RecvRecord(session, conn, yielded + 1, FALSE))
    /\ UNCHANGED <<host, pc, conn, session, nextConn, callbacks, attempts,
                   allDur, factoryCalls, factoryLog, live>>

\* variant: the exception of recv is classified and the pump goes on
RecvThrows_PumpGoesOn(calls, err, d, dcalls) ==
    /\ pc = "read"
    /\ yielded < MaxChunks
    /\ WithinBound(Eng, conn, calls)
    /\ Commit(handle_err(MaySend(Eng, conn, calls), err))
    /\ recvCalled' = TRUE
    /\ yielded' = yielded + 1
    /\ recvLog' = Append(recvLog, RecvRecord(session, conn, yielded + 1, TRUE))
    /\ UNCHANGED <<host, pc, conn, session, nextConn, callbacks, attempts,
                   allDur, factoryCalls, factoryLog, live>>

\* conn.readable yields a chunk and session.recv throws err
RecvThrows(calls, err, d, dcalls) ==
    /\ pc = "read"
    /\ yielded < MaxChunks
    /\ WithinBound(Eng, conn, calls)
    /\ Commit(terminate(handle_err(MaySend(Eng, conn, calls), err),
                        session, conn, d, dcalls))
    /\ recvCalled' = TRUE
    /\ yielded' = yielded + 1
    /\ recvLog' = Append(recvLog, RecvRecord(session, conn, yielded + 1, TRUE))
    /\ live' = live \ {conn}
    /\ pc' = "timer"
    /\ allDur' = Append(allDur, d)
    /\ UNCHANGED <<host, conn, session, nextConn, callbacks, attempts,
                   factoryCalls, factoryLog>>

\* reading conn.readable throws err
ReadFails(err, d, dcalls) ==
    /\ pc = "read"
    /\ Commit(terminate(handle_err(Eng, err), session, conn, d, dcalls))
    /\ live' = live \ {conn}
    /\ pc' = "timer"
    /\ allDur' = Append(allDur, d)
    /\ UNCHANGED <<host, conn, session, nextConn, callbacks, recvCalled,
                   attempts, factoryCalls, factoryLog, yielded, recvLog>>

\* conn.readable ends
ReadEnds(d, dcalls) ==
    /\ pc = "read"
    /\ Commit(terminate(Eng, session, conn, d, dcalls))
    /\ live' = live \ {conn}
    /\ pc' = "timer"
    /\ allDur' = Append(allDur, d)
    /\ UNCHANGED <<host, conn, session, nextConn, callbacks, recvCalled,
                   attempts, factoryCalls, factoryLog, yielded, recvLog>>

----------------------------------------------------------------------------
(* The send callback called from outside #loop (a timer of the driver),    *)
(* and the settling of the writes it issued                                *)

LoopVars == <<host, pc, conn, session, nextConn, callbacks, recvCalled,
              attempts, allDur, factoryCalls, factoryLog, live, yielded,
              recvLog>>

SendCall(c) ==
    /\ c \in callbacks
    /\ WithinBound(Eng, c, TRUE)
    /\ Commit(send(Eng, c))
    /\ UNCHANGED LoopVars

\* a conn.write(data) promise of socket c resolves
WriteDone(c) ==
    /\ pending[c] > 0
    /\ Commit([Eng EXCEPT !.pending[c] = @ - 1])
    /\ UNCHANGED LoopVars

\* variant: a failed write also drops the current socket
WriteFails_DropsCurrent(c, err) ==
    /\ pending[c] > 0
    /\ Commit([handle_err([Eng EXCEPT !.pending[c] = @ - 1], err)
                  EXCEPT !.cur = Null])
    /\ UNCHANGED LoopVars

\* variant: a failed write also destroys the session
WriteFails_DestroysSession(c, err) ==
    /\ pending[c] > 0
    /\ Commit(destroy(handle_err([Eng EXCEPT !.pending[c] = @ - 1], err),
                      session, FALSE))
    /\ UNCHANGED LoopVars

\* a conn.write(data) promise of socket c rejects with err: the .catch
WriteFails(c, err) ==
    /\ pending[c] > 0
    /\ Commit(handle_err([Eng EXCEPT !.pending[c] = @ - 1], err))
    /\ UNCHANGED LoopVars

----------------------------------------------------------------------------

Next ==
    \/ TimerFires(MaxAttempts)
    \/ \E err \in Failures, d \in SpecDurations : ConnectFails(err, d)
    \/ \E calls \in BOOLEAN : ConnectSucceeds(calls)
    \/ \E calls \in BOOLEAN, err \in Failures, d \in SpecDurations :
          FactoryThrows(calls, err, d)
    \/ \E calls \in BOOLEAN : RecvChunk(calls)
    \/ \E calls, dcalls \in BOOLEAN, err \in Failures, d \in SpecDurations :
          RecvThrows(calls, err, d, dcalls)
    \/ \E err \in Failures, d \in SpecDurations, dcalls \in BOOLEAN :
          ReadFails(err, d, dcalls)
    \/ \E d \in SpecDurations, dcalls \in BOOLEAN : ReadEnds(d, dcalls)
    \/ \E c \in ConnIds : SendCall(c)
    \/ \E c \in ConnIds : WriteDone(c)
    \/ \E c \in ConnIds, err \in Failures : WriteFails(c, err)

Spec == Init /\ [][Next]_vars

\* the runtime fires a timer that is due
SpecFair == Init /\ [][Next]_vars /\ WF_vars(TimerFires(MaxAttempts))

----------------------------------------------------------------------------
(* A driver that never calls send, over MaxLongAttempts attempts: every    *)
(* path through #loop, none of the send callback                           *)

QuietFailures == {Refused, [isError |-> TRUE, name |-> "ConnectionReset"]}

QuietNext ==
    \/ TimerFires(MaxLongAttempts)
    \/ \E err \in QuietFailures, d \in Durations : ConnectFails(err, d)
    \/ ConnectSucceeds(FALSE)
    \/ \E err \in QuietFailures, d \in Durations : FactoryThrows(FALSE, err, d)
    \/ RecvChunk(FALSE)
    \/ \E err \in QuietFailures, d \in Durations :
          RecvThrows(FALSE, err, d, FALSE)
    \/ \E err \in QuietFailures, d \in Durations : ReadFails(err, d, FALSE)
    \/ \E d \in Durations : ReadEnds(d, FALSE)

SpecQuiet == Init /\ [][QuietNext]_vars

(* A device that refuses every connect.  The runtime settles the connect   *)
(* promise and fires the timer, so the loop's next step is always taken.   *)

RefusedNext ==
    \/ TimerFires(MaxLongAttempts)
    \/ \E d \in Durations : ConnectFails(Refused, d)

SpecRefused == Init /\ [][RefusedNext]_vars /\ WF_vars(RefusedNext)

----------------------------------------------------------------------------
(* Claims *)

\* C1: a send callback writes only when the socket its closure captured is
\* the engine's current socket at the moment of the call, and then on that
\* socket; a call made after its attempt has ended, or after a newer socket
\* has become current, writes on no socket.
WriteSafety ==
    \A i \in DOMAIN sendLog :
        LET w == sendLog[i]
        IN  /\ w.on # Null => (w.on = w.conn /\ w.conn = w.cur /\ ~w.stale)
            /\ (w.stale \/ w.cur # w.conn) => w.on = Null

\* a send call of a socket that a newer socket has superseded
StaleSendAfterSupersede ==
    \E i \in DOMAIN sendLog :
        /\ sendLog[i].stale
        /\ sendLog[i].cur \notin {Null, sendLog[i].conn}
        /\ sendLog[i].on = Null

AllowedTransitions ==
    {<<"DISCONNECTED", "CONNECTING">>, <<"CONNECTING", "CONNECTED">>,
     <<"CONNECTING", "DISCONNECTED">>, <<"CONNECTED", "DISCONNECTED">>}

\* C2: every change of status is Disconnected->Connecting,
\* Connecting->Connected, Connecting->Disconnected or
\* Connected->Disconnected.
StatusFollowsLifecycle ==
    \A i \in 1..(Len(statusLog) - 1) :
        statusLog[i] # statusLog[i + 1]
            => <<statusLog[i], statusLog[i + 1]>> \in AllowedTransitions

\* C3: the delay scheduled after an attempt is max(0, 5000 ms - average).
BackOffIsClampedBelow ==
    pc = "timer" => delay = Max(0, TargetWindow - avg_conn_duration)

\* C4: once an attempt has ended, destroy() has been called exactly once if
\* the attempt created a session and not at all if it created none; before
\* the attempt ends destroy() has not been called.
DestroyOncePerSession ==
    /\ pc = "timer" => destroyCalls = (IF session # Null THEN 1 ELSE 0)
    /\ pc # "timer" => destroyCalls = 0

\* a session destroyed after a read error that came before any recv call
DestroyedWithoutRecv ==
    /\ pc = "timer"
    /\ session # Null
    /\ ~recvCalled
    /\ lastErr # NoFailure
    /\ destroyCalls = 1

\* C5: when every connect is refused, after each failed attempt status is
\* Disconnected with detail ConnectionRefused, and a next attempt is started
\* (as long as the model's bound on attempts allows one).
RefusedRetries ==
    /\ [](Enabled(host) /\ status = "DISCONNECTED"
            => pc = "timer" /\ details = "ECONNREFUSED")
    /\ ((pc = "timer" /\ attempts < MaxLongAttempts)
            ~> (pc = "connect" /\ status = "CONNECTING"))

\* the third refused attempt in a row has ended
RefusedThrice ==
    /\ pc = "timer"
    /\ Len(allDur) = 3
    /\ details = "ECONNREFUSED"

LastOf(s, k) == SubSeq(s, Len(s) - k + 1, Len(s))

\* C6: after n finished attempts the history is the durations of the last
\* min(n, 6) attempts in order; the average is the mean of those and is NaN
\* exactly while n = 0.
HistoryIsLastSix ==
    LET n == Len(allDur)
        k == Min(n, 6)
    IN  /\ stats_conn_duration = LastOf(allDur, k)
        /\ Len(stats_conn_duration) <= 6
        /\ (avg_conn_duration = NaN) <=> (n = 0)
        /\ n > 0 => avg_conn_duration * k = Sum(LastOf(allDur, k))

\* the seventh attempt has evicted an entry that differs from its successor
SeventhEvictsOldest ==
    /\ Len(allDur) = 7
    /\ allDur[1] # allDur[2]
    /\ Len(stats_conn_duration) = 6

\* C7: with host "" or "!" nothing is ever attempted: status Disconnected,
\* detail NoError, average NaN, no connect, no sessionFactory call.
DisabledDoesNothing ==
    host \in {"", "!"} =>
        /\ status = "DISCONNECTED"
        /\ details = "NO_ERROR"
        /\ avg_conn_duration = NaN
        /\ pc = "off"
        /\ attempts = 0
        /\ nextConn = 1
        /\ factoryLog = {}

\* an engine constructed with the "!" sentinel
DisabledBySentinel == host = "!" /\ pc = "off"

\* C8: sessionFactory is called at most once per attempt, only after that
\* attempt's connect succeeded, and it sees status Connected, detail NoError
\* and the new socket as the current socket.
FactoryAfterConnected ==
    /\ factoryCalls <= 1
    /\ (factoryCalls = 1) <=> (conn # Null)
    /\ \A v \in factoryLog :
          v.status = "CONNECTED" /\ v.details = "NO_ERROR" /\ v.current

\* sessionFactory called in an attempt that follows a failed one
FactoryAfterFailedAttempt ==
    /\ attempts = 2
    /\ factoryCalls = 1
    /\ conn = 1
    /\ pc = "read"

ExpectedDetail(err) ==
    CASE err.isError /\ err.name = "ConnectionRefused" -> "ECONNREFUSED"
      [] err.isError /\ err.name = "ConnectionReset" -> "ECONNRESET"
      [] err.isError /\ err.name = "TimedOut" -> "ETIMEDOUT"
      [] err.isError /\ err.name = "Interrupted" -> "INTERRUPTED"
      [] err.isError /\ err.name = "ConnectionAborted" -> "NO_ERROR"
      [] OTHER -> "UNKNOWN_ERROR"

\* C9: after a step that handed a failure to the classifier, status is
\* Disconnected and detail is the one the table gives for that failure.
ClassifierFollowsTable ==
    lastErr # NoFailure =>
        status = "DISCONNECTED" /\ details = ExpectedDetail(lastErr)

\* a failure that is no Error object, although it carries a known name
UntypedFailureClassified ==
    /\ lastErr = [isError |-> FALSE, name |-> "ConnectionRefused"]
    /\ details = "UNKNOWN_ERROR"

Observables == <<status, details, avg_conn_duration, current_conn>>
\* steps of SendCall, WriteDone and WriteFails; the first conjuncts follow
\* from the actions and spare evaluating them on the steps of the loop
SendStep == sendLog' # <<>> /\ pc' = pc /\ \E c \in ConnIds : SendCall(c)
WriteDoneStep == pending' # pending /\ \E c \in ConnIds : WriteDone(c)
WriteFailsStep ==
    /\ pending' # pending
    /\ lastErr' \in Failures
    /\ \E c \in ConnIds : WriteFails(c, lastErr')

\* C10 as stated: no step of the send callback, nor the settling of a write
\* it issued, changes status, detail, the average or the current socket.
SendPathChangesNothing ==
    [][(SendStep \/ WriteDoneStep \/ WriteFailsStep)
          => UNCHANGED Observables]_vars

\* C10 as amended: a send call and the success of a write change none of the
\* four; the failure of a write sets status to Disconnected and changes the
\* detail, and leaves the average and the current socket alone.
SendPathFrame ==
    [][/\ (SendStep \/ WriteDoneStep) => UNCHANGED Observables
       /\ WriteFailsStep =>
             /\ UNCHANGED <<avg_conn_duration, current_conn>>
             /\ status' = "DISCONNECTED"]_vars

\* a write failed while its socket was current: status was changed outside
\* the loop, the socket stays current
WriteFailedWhileCurrent ==
    /\ pc = "read"
    /\ current_conn = conn
    /\ lastErr # NoFailure
    /\ status = "DISCONNECTED"

\* C11: for an enabled engine there is at every moment either exactly one
\* #loop invocation in progress and no timer pending, or none in progress and
\* exactly one timer pending: attempts never overlap, and each finished
\* attempt has scheduled exactly one next attempt.
OneAttemptAtATime ==
    host \notin {"", "!"} =>
        /\ active \in {0, 1}
        /\ timers \in {0, 1}
        /\ active + timers = 1
        /\ (active = 1) <=> (pc \in {"connect", "read"})

\* an attempt that connected and ended in a failure has scheduled the next
RetryScheduledAfterFailure ==
    /\ pc = "timer"
    /\ conn # Null
    /\ lastErr # NoFailure
    /\ timers = 1
    /\ active = 0

\* C12: at most one socket opened by the engine is live at any time.
AtMostOneLive == Cardinality(live) <= 1

\* C13: whenever status reads Connected, detail reads NoError: in every
\* state between steps and in every pair the signals showed their observers
\* within a step.
ConnectedImpliesNoError ==
    /\ status = "CONNECTED" => details = "NO_ERROR"
    /\ \A o \in observed : o[1] = "CONNECTED" => o[2] = "NO_ERROR"

\* an attempt that follows a finished one is connected
ConnectedAfterEarlierAttempt ==
    /\ status = "CONNECTED"
    /\ details = "NO_ERROR"
    /\ Len(allDur) >= 1
    /\ <<"CONNECTED", "NO_ERROR">> \in observed

ReadEndsStep ==
    /\ pc = "read"
    /\ pc' = "timer"
    /\ \E d \in Durations, dcalls \in BOOLEAN : ReadEnds(d, dcalls)

\* C14: when the stream of an attempt ends cleanly, detail reads NoError once
\* the attempt's termination has set status to Disconnected.
CleanEndReadsNoError ==
    [][ReadEndsStep => (status' = "DISCONNECTED" /\ details' = "NO_ERROR")]_vars

\* a step in which recv is called, and one in which that call throws
RecvStep == recvLog' # recvLog /\ recvLog' # <<>>
RecvThrowsStep == RecvStep /\ recvLog'[Len(recvLog')].threw

\* C15: the step in which recv throws classifies the exception, clears the
\* current socket, records one duration, destroys the session, ends the
\* invocation and leaves one timer pending; recv is never called on a session
\* whose attempt has ended; and the pending timer starts the next attempt (as
\* long as the model's bound on attempts allows one).
RecvThrowEndsAttemptOnly ==
    /\ [][RecvThrowsStep =>
             /\ status' = "DISCONNECTED"
             /\ lastErr' \in Failures
             /\ details' = ExpectedDetail(lastErr')
             /\ current_conn' = Null
             /\ Len(allDur') = Len(allDur) + 1
             /\ destroyCalls' = 1
             /\ pc' = "timer"
             /\ active' = 0
             /\ timers' = 1]_vars
    /\ [][RecvStep => session \notin ended]_vars
    /\ ((pc = "timer" /\ attempts < MaxAttempts) ~> (pc = "connect"))

\* recv threw an error the classifier does not recognise
RecvThrewUnrecognised ==
    /\ pc = "timer"
    /\ recvLog # <<>>
    /\ recvLog[Len(recvLog)].threw
    /\ lastErr = [isError |-> TRUE, name |-> "BadResource"]
    /\ details = "UNKNOWN_ERROR"
    /\ destroyCalls = 1

\* C16: the step that handles a failed write classifies the failure and
\* leaves the current socket, the loop's position, the session, the
\* statistics and the timers as they were; while the attempt is in its read
\* phase a further chunk can still be passed to recv.
WriteFailureKeepsAttempt ==
    /\ [][WriteFailsStep =>
             /\ UNCHANGED <<current_conn, pc, session, destroyCalls, allDur,
                            stats_conn_duration, avg_conn_duration, timers,
                            active, live>>
             /\ lastErr' \in Failures
             /\ details' = ExpectedDetail(lastErr')]_vars
    /\ [](pc = "read" /\ yielded < MaxChunks => ENABLED RecvChunk(FALSE))

\* in the first attempt a write has failed, the attempt goes on and the next
\* chunk can be passed to recv
PumpGoesOnAfterWriteFailure ==
    /\ attempts = 1
    /\ pc = "read"
    /\ current_conn = conn
    /\ details # "NO_ERROR"
    /\ destroyCalls = 0
    /\ ENABLED RecvChunk(FALSE)

\* C17: the chunks passed to recv in an attempt are the chunks its socket
\* yielded, in that order, each passed to the session created for that
\* socket; each step passes at most one; recv is called only in the read phase
\* of the attempt, before destroy().
RecvInOrder ==
    /\ [](/\ Len(recvLog) = yielded
          /\ \A i \in DOMAIN recvLog :
                /\ recvLog[i].chunk = i
                /\ recvLog[i].from = conn
                /\ recvLog[i].to = session
                /\ recvLog[i].to = recvLog[i].from)
    /\ [][RecvStep =>
             /\ Len(recvLog') = Len(recvLog) + 1
             /\ pc = "read"
             /\ destroyCalls = 0
             /\ session \notin ended]_vars

\* two chunks have been passed to recv
TwoChunksReceived ==
    /\ pc = "read"
    /\ Len(recvLog) = 2
    /\ ~recvLog[2].threw

====
